---- MODULE Spec2Model ----
(***************************************************************************)
(* BinaryHeap.js: an array-backed binary heap / priority queue.            *)
(*                                                                         *)
(* The repository holds two revisions of the container.                    *)
(*   - src/BinaryHeap.js : push, pop, pushArray, size, upHeap, downHeap,   *)
(*     findParent, findMinChild, swapAt.  findMinChild reads both child    *)
(*     slots without a bounds check.                                       *)
(*   - the listing in src/README.md : the same operations with bounds      *)
(*     checks in _findMinChild, plus popArray, empty, peek, peekArray,     *)
(*     _findChildren and _clone.                                           *)
(* The model variable impl says which revision a heap instance runs.       *)
(*                                                                         *)
(* Encoding of JavaScript values                                           *)
(*   undefined                  <<>>                                       *)
(*   the number n               <<n, 0>>                                   *)
(*   Infinity                   <<MaxVal + 1, 0>>                          *)
(*   null                       <<0>>                                      *)
(*   the object {key:k, id:i}   <<k, i>>   (i >= 1)                        *)
(*   pack(data, index)          <<data, index>>                            *)
(*   an array                   a sequence; JS index i is position i + 1   *)
(***************************************************************************)
EXTENDS Integers, Sequences, FiniteSets, TLC

\* ------------------------------------------------------------------------
\* Bounds of the model
\* ------------------------------------------------------------------------
\* numbers stored are 1..MaxVal
MaxVal == 3
\* keys of stored objects are 1..MaxKey
MaxKey == 2
\* objects with the same key are told apart by an id in 1..MaxId
MaxId == 2
\* push is not called on a heap of numbers that holds MaxLen elements
MaxLen == 5
\* push is not called on a heap of objects that holds MaxObjLen elements
MaxObjLen == 3
\* the caller's modifications are followed on heaps of at most MaxAliasLen
\* elements
MaxAliasLen == 3
\* push orders are compared on arrays of at most MaxOrder elements
MaxOrder == 3
\* the index functions are applied to the indices 0..MaxIndex
MaxIndex == 60
\* the push and pop counters are followed up to MaxPushes pushes
MaxPushes == 6
\* heapsort is called with arrays of at most MaxSort elements
MaxSort == 5

\* ------------------------------------------------------------------------
\* JavaScript values and arrays
\* ------------------------------------------------------------------------
Undef == <<>>

\* index value null returned by _findMinChild / _findChildren
Null == -1

Num(n) == <<n, 0>>

Obj(k, i) == <<k, i>>

\* the number Infinity: above every other number stored
Infinity == Num(MaxVal + 1)

\* the value null (what JSON.parse gives for the text "null")
JSNull == <<0>>

Numbers == {Num(n) : n \in 1..MaxVal} \cup {Infinity}

Objects == {Obj(k, i) : k \in 1..MaxKey, i \in 1..MaxId}

\* error values: what a call throws ("none": the call returned)
NoErr == "none"

TypeError == "TypeError"

SyntaxError == "SyntaxError"

HeapError == "binary_heap error"

\* a[i]: reading outside 0..length-1 yields undefined
At(d, i) == IF i >= 0 /\ i < Len(d) THEN d[i + 1] ELSE Undef

\* a[i] = v: inside the array it overwrites; at or past the end it extends
\* the array (holes read as undefined); a negative i sets a property that
\* is not an element and leaves the elements and the length alone (the only
\* one set is "-1", to undefined, by swapAt(0, -1) on an empty array: a read
\* of a[-1] yields undefined with or without it)
Put(d, i, v) ==
    IF i < 0 THEN d
    ELSE IF i < Len(d) THEN [d EXCEPT ![i + 1] = v]
    ELSE d \o [j \in 1..(i - Len(d)) |-> Undef] \o <<v>>

\* ArrayPop, had the element been deleted rather than popped: the slot stays
ArrayPopDelete(d) == IF Len(d) = 0 THEN d ELSE [d EXCEPT ![Len(d)] = <<>>]

\* Array.prototype.pop, the returned element dropped
ArrayPop(d) == IF Len(d) = 0 THEN d ELSE SubSeq(d, 1, Len(d) - 1)

size(d) == Len(d)

empty(d) == size(d) = 0

\* ------------------------------------------------------------------------
\* Comparators.  "lt": the default function(x, y) { return x < y }.
\* "gt": (a, b) => a > b.  "key": (a, b) => a.key < b.key on objects.
\* "pack_c": the comparator peekArray gives its queue,
\* function(x, y) { return compF(x["data"], y["data"]) } with compF = c.
\* ------------------------------------------------------------------------
Comparators == {"lt", "gt", "key"}

Elements(c) == IF c = "key" THEN Objects ELSE Numbers

IsPack(c) == c \in {"pack_lt", "pack_gt", "pack_key"}

Wrap(c) == CASE c = "lt" -> "pack_lt" [] c = "gt" -> "pack_gt" [] c = "key" -> "pack_key"

Inner(c) == CASE c = "pack_lt" -> "lt" [] c = "pack_gt" -> "gt" [] c = "pack_key" -> "key"

pack(data, index) == <<data, index>>

\* the user's comparator called on (x, y) throws: property access on undefined
userThrows(c, x, y) == c = "key" /\ (x = Undef \/ y = Undef)

\* userCompare, had every comparator been the default x < y
userCompareDefault(c, x, y) == x # Undef /\ y # Undef /\ x[1] < y[1]

\* its result when it returns; a relational operator with an undefined
\* operand is false
userCompare(c, x, y) ==
    /\ x # Undef
    /\ y # Undef
    /\ CASE c = "lt" -> x[1] < y[1]
         [] c = "gt" -> x[1] > y[1]
         [] c = "key" -> x[1] < y[1]

compareThrows(c, x, y) ==
    IF IsPack(c)
    THEN x = Undef \/ y = Undef \/ userThrows(Inner(c), x[1], y[1])
    ELSE userThrows(c, x, y)

compareFunc(c, x, y) ==
    IF IsPack(c) THEN userCompare(Inner(c), x[1], y[1]) ELSE userCompare(c, x, y)

\* ------------------------------------------------------------------------
\* Helper functions shared by both revisions
\* ------------------------------------------------------------------------
\* findParent, had it been Math.floor(n / 2)
findParentHalf(n) == n \div 2

\* Math.floor((n + 1) / 2) - 1: the division is exact or ends in .5, and
\* floor rounds down as \div does
findParent(n) == ((n + 1) \div 2) - 1

\* var childR = (n + 1) * 2; var childL = childR - 1, as findMinChild,
\* _findMinChild and _findChildren begin
childRight(n) == (n + 1) * 2

childLeft(n) == childRight(n) - 1

swapAt(d, x, y) ==
    LET temp == At(d, x)
    IN  Put(Put(d, x, At(d, y)), y, temp)

\* upStep, had the index been left where it was after the swap
upStepStay(c, d, index) ==
    LET parent == findParent(index)
    IN  IF compareFunc(c, At(d, index), At(d, parent))
        THEN [data |-> swapAt(d, index, parent), index |-> index, more |-> TRUE]
        ELSE [data |-> d, index |-> index, more |-> FALSE]

\* One iteration of the loop of upHeap: the storage and the index after
\* it; more is FALSE when the iteration ended in break
upStep(c, d, index) ==
    LET parent == findParent(index)
    IN  IF compareFunc(c, At(d, index), At(d, parent))
        THEN [data |-> swapAt(d, index, parent), index |-> parent, more |-> TRUE]
        ELSE [data |-> d, index |-> index, more |-> FALSE]

\* the storage indices that iteration reads or writes
upReads(d, index) == {index, findParent(index)}

RECURSIVE upLoop(_, _, _)
upLoop(c, d, index) ==
    IF index > 0
    THEN LET s == upStep(c, d, index)
         IN  IF s.more THEN upLoop(c, s.data, s.index) ELSE s.data
    ELSE d

\* upHeap, had the loop been a single test: the element rises one level
upHeapOnce(c, d) ==
    LET index == size(d) - 1
        parent == findParent(index)
    IN  IF index > 0 /\ compareFunc(c, At(d, index), At(d, parent))
        THEN swapAt(d, index, parent)
        ELSE d

upHeap(c, d) == upLoop(c, d, size(d) - 1)

\* push, had the element been written over the last slot instead of after it
pushOverwrite(c, d, elt) ==
    upHeap(c, IF Len(d) = 0 THEN d ELSE [d EXCEPT ![Len(d)] = elt])

push(c, d, elt) == upHeap(c, Put(d, Len(d), elt))

RECURSIVE pushArray(_, _, _)
pushArray(c, d, arr) ==
    IF arr = <<>> THEN d ELSE pushArray(c, push(c, d, Head(arr)), Tail(arr))

\* ------------------------------------------------------------------------
\* src/BinaryHeap.js: downHeap and findMinChild without bounds checks
\* ------------------------------------------------------------------------
findMinChildThrows(c, d, n) ==
    LET childR == (n + 1) * 2
        childL == childR - 1
    IN  compareThrows(c, At(d, childR), At(d, childL))

findMinChild(c, d, n) ==
    LET childR == (n + 1) * 2
        childL == childR - 1
    IN  IF compareFunc(c, At(d, childR), At(d, childL)) THEN childR ELSE childL

\* One iteration of the loop of downHeap: the storage and the index after
\* it; more is FALSE when the iteration ended in break or threw
downStep(c, d, index) ==
    IF findMinChildThrows(c, d, index)
    THEN [data |-> d, index |-> index, more |-> FALSE, err |-> TypeError]
    ELSE LET child == findMinChild(c, d, index)
         IN  IF compareThrows(c, At(d, child), At(d, index))
             THEN [data |-> d, index |-> index, more |-> FALSE, err |-> TypeError]
             ELSE IF compareFunc(c, At(d, child), At(d, index))
                  THEN [data |-> swapAt(d, child, index), index |-> child,
                        more |-> TRUE, err |-> NoErr]
                  ELSE [data |-> d, index |-> index, more |-> FALSE, err |-> NoErr]

\* the storage indices that iteration reads or writes: findMinChild reads
\* both child slots, then the loop reads the child found and the index
downReads(c, d, index) ==
    {(index + 1) * 2, (index + 1) * 2 - 1}
        \cup (IF findMinChildThrows(c, d, index) THEN {}
              ELSE {findMinChild(c, d, index), index})

RECURSIVE downLoop(_, _, _)
downLoop(c, d, index) ==
    IF index < size(d)
    THEN LET s == downStep(c, d, index)
         IN  IF s.more THEN downLoop(c, s.data, s.index)
             ELSE [data |-> s.data, err |-> s.err]
    ELSE [data |-> d, err |-> NoErr]

\* the first two statements of downHeap / _downHeap: the top element goes
\* to the end and is removed
downStart(d) == ArrayPop(swapAt(d, 0, size(d) - 1))

downHeap(c, d) == downLoop(c, downStart(d), 0)

\* ------------------------------------------------------------------------
\* src/README.md listing: _downHeap and _findMinChild with bounds checks
\* ------------------------------------------------------------------------
\* _findMinChild, had the right child never been looked at
_findMinChildLeft(c, d, n) ==
    LET childR == (n + 1) * 2
        childL == childR - 1
    IN  IF childL >= size(d) THEN Null ELSE childL

_findMinChild(c, d, n) ==
    LET childR == (n + 1) * 2
        childL == childR - 1
    IN  IF childL >= size(d) THEN Null
        ELSE IF childR < size(d) /\ compareFunc(c, At(d, childR), At(d, childL))
             THEN childR
             ELSE childL

\* One iteration of the loop of _downHeap
_downStep(c, d, index) ==
    LET child == _findMinChild(c, d, index)
    IN  IF child # Null /\ compareThrows(c, At(d, child), At(d, index))
        THEN [data |-> d, index |-> index, more |-> FALSE, err |-> TypeError]
        ELSE IF child # Null /\ compareFunc(c, At(d, child), At(d, index))
             THEN [data |-> swapAt(d, child, index), index |-> child,
                   more |-> TRUE, err |-> NoErr]
             ELSE [data |-> d, index |-> index, more |-> FALSE, err |-> NoErr]

\* the storage indices that iteration reads or writes: _findMinChild reads
\* the two child slots only when both are in range, and the loop reads the
\* child and the index only when there is a child
_downReads(c, d, index) ==
    (IF (index + 1) * 2 < size(d) THEN {(index + 1) * 2, (index + 1) * 2 - 1} ELSE {})
        \cup (IF _findMinChild(c, d, index) # Null
              THEN {_findMinChild(c, d, index), index}
              ELSE {})

RECURSIVE _downLoop(_, _, _)
_downLoop(c, d, index) ==
    IF index < size(d)
    THEN LET s == _downStep(c, d, index)
         IN  IF s.more THEN _downLoop(c, s.data, s.index)
             ELSE [data |-> s.data, err |-> s.err]
    ELSE [data |-> d, err |-> NoErr]

\* _downHeap, had the element moved to the root been left there
_downHeapNoSift(c, d) == [data |-> downStart(d), err |-> NoErr]

_downHeap(c, d) == _downLoop(c, downStart(d), 0)

\* ------------------------------------------------------------------------
\* pop of either revision: [data, ret, err].  ret is the sequence of the
\* values returned (one value for pop), empty when the call threw.
\* ------------------------------------------------------------------------
Old == "BinaryHeap.js"

New == "README.md"

Impls == {Old, New}

pop(i, c, d) ==
    LET ret == At(d, 0)
        r   == IF i = Old THEN downHeap(c, d) ELSE _downHeap(c, d)
    IN  [data |-> r.data,
         ret  |-> IF r.err = NoErr THEN <<ret>> ELSE <<>>,
         err  |-> r.err]

RECURSIVE popLoop(_, _, _, _)
popLoop(c, d, k, acc) ==
    IF k = 0 THEN [data |-> d, ret |-> acc, err |-> NoErr]
    ELSE LET r == pop(New, c, d)
         IN  IF r.err # NoErr
             THEN [data |-> r.data, ret |-> <<>>, err |-> r.err]
             ELSE popLoop(c, r.data, k - 1, acc \o r.ret)

\* popArray, had the precondition been left out
popArrayUnchecked(c, d, n) == popLoop(c, d, IF n = Null THEN size(d) ELSE n, <<>>)

\* popArray(n); n = Null when the argument is omitted
popArray(c, d, n) ==
    IF n # Null /\ n > size(d)
    THEN [data |-> d, ret |-> <<>>, err |-> HeapError]
    ELSE popLoop(c, d, IF n = Null THEN size(d) ELSE n, <<>>)

\* JSON.stringify: undefined for undefined, otherwise the text of the value
\* (finite numbers and objects of finite numbers print exactly; Infinity
\* prints as null); the text of x is <<x>>
JSONstringify(x) ==
    IF x = Undef THEN Undef
    ELSE IF x = Infinity THEN <<JSNull>>
    ELSE <<x>>

\* JSON.parse(t) throws a SyntaxError on undefined (read as the text
\* "undefined", which is not JSON)
JSONparseThrows(t) == t = Undef

JSONparse(t) == t[1]

\* _clone(n): a copy of _data[n] with the same value (undefined as it is)
_clone(d, n) == At(d, n)

\* _cloneRef, had _clone returned this._data[n] itself
_cloneRefUnsafe(d, n) == IF At(d, n) \in Objects THEN n ELSE Null

\* the storage index whose object _clone(n) returns, Null when what it
\* returns is no object held in the storage: undefined and numbers are
\* values, and an object is rebuilt by clone(x), a new x.constructor that
\* receives a clone of each property
_cloneRef(d, n) == Null

\* the same for peek(): JSON.parse builds a new value from the text
peekRef(d) == Null

\* peek, had it returned _clone(0) (the line commented out in peek)
peekClone(d) == [data |-> d, ret |-> <<_clone(d, 0)>>, err |-> NoErr]

peek(d) ==
    LET t == JSONstringify(At(d, 0))
    IN  IF JSONparseThrows(t)
        THEN [data |-> d, ret |-> <<>>, err |-> SyntaxError]
        ELSE [data |-> d, ret |-> <<JSONparse(t)>>, err |-> NoErr]

\* _findChildren, had childL been childR - 2
_findChildrenOff(d, n) ==
    LET childR == (n + 1) * 2
        childL == childR - 2
    IN  <<IF childL >= size(d) THEN Null ELSE childL,
          IF childR >= size(d) THEN Null ELSE childR>>

\* _findChildren, had the right child been dropped
_findChildrenLeft(d, n) ==
    LET childR == (n + 1) * 2
        childL == childR - 1
    IN  <<IF childL >= size(d) THEN Null ELSE childL, Null>>

_findChildren(d, n) ==
    LET childR == (n + 1) * 2
        childL == childR - 1
    IN  <<IF childL >= size(d) THEN Null ELSE childL,
          IF childR >= size(d) THEN Null ELSE childR>>

\* One iteration of the loop of peekArray.  st holds the local variables:
\* count, queue (the auxiliary heap of packs), ret (the preallocated
\* array), and idx, the values curr["index"] has taken so far; err is what
\* the iteration threw.
peekStep(c, d, st) ==
    LET r == pop(New, Wrap(c), st.queue)
    IN  IF r.err # NoErr
        THEN [st EXCEPT !.queue = r.data, !.err = r.err]
        ELSE LET curr == r.ret[1]
                 iChildren == _findChildren(d, curr[2])
                 q1 == IF iChildren[1] # Null
                       THEN push(Wrap(c), r.data,
                                 pack(At(d, iChildren[1]), iChildren[1]))
                       ELSE r.data
                 q2 == IF iChildren[2] # Null
                       THEN push(Wrap(c), q1,
                                 pack(At(d, iChildren[2]), iChildren[2]))
                       ELSE q1
             IN  [count |-> st.count + 1,
                  queue |-> q2,
                  ret   |-> Put(st.ret, st.count, _clone(d, curr[2])),
                  idx   |-> Append(st.idx, curr[2]),
                  err   |-> NoErr]

\* the storage indices that iteration reads: the children found and the
\* element cloned
peekReads(c, d, st) ==
    LET curr == pop(New, Wrap(c), st.queue).ret[1]
        iChildren == _findChildren(d, curr[2])
    IN  {curr[2]} \cup ({iChildren[1], iChildren[2]} \ {Null})

\* the loop condition
peekMore(n, st) == st.err = NoErr /\ st.count < n /\ ~empty(st.queue)

RECURSIVE peekLoop(_, _, _, _)
peekLoop(c, d, n, st) ==
    IF peekMore(n, st) THEN peekLoop(c, d, n, peekStep(c, d, st)) ELSE st

\* peekStart, had the first element added been the last of the storage
peekStartLast(c, d, m) ==
    [count |-> 0,
     queue |-> push(Wrap(c), <<>>, pack(At(d, size(d) - 1), size(d) - 1)),
     ret   |-> [j \in 1..m |-> Undef],
     idx   |-> <<>>,
     err   |-> NoErr]

\* the local variables of peekArray when the loop is entered
peekStart(c, d, m) ==
    [count |-> 0,
     queue |-> push(Wrap(c), <<>>, pack(At(d, 0), 0)),
     ret   |-> [j \in 1..m |-> Undef],
     idx   |-> <<>>,
     err   |-> NoErr]

\* what peekArray returns or throws once the loop has ended
peekEnd(d, st) ==
    [data |-> d,
     ret  |-> IF st.err = NoErr THEN st.ret ELSE <<>>,
     err  |-> st.err,
     idx  |-> st.idx]

\* peekArray, had it taken the elements off the heap itself
peekArrayDraining(c, d, n) == popArray(c, d, n)

\* peekArray, had the precondition been n >= size
peekArrayStrict(c, d, n) ==
    LET m == IF n = Null THEN size(d) ELSE n
    IN  IF m >= size(d)
        THEN [data |-> d, ret |-> <<>>, err |-> HeapError, idx |-> <<>>]
        ELSE peekEnd(d, peekLoop(c, d, m, peekStart(c, d, m)))

\* peekArray(n); n = Null when the argument is omitted
peekArray(c, d, n) ==
    LET m == IF n = Null THEN size(d) ELSE n
    IN  IF m > size(d)
        THEN [data |-> d, ret |-> <<>>, err |-> HeapError, idx |-> <<>>]
        ELSE peekEnd(d, peekLoop(c, d, m, peekStart(c, d, m)))

\* ------------------------------------------------------------------------
\* heapify / heapsort: src/BinaryHeapUtil.js drains with a pop loop on the
\* src/BinaryHeap.js heap, src/unnamed/part_000 with popArray() on the
\* README.md heap.  heapsort passes no comparator: the default is used.
\* ------------------------------------------------------------------------
heapify(arr, c) == pushArray(c, <<>>, arr)

RECURSIVE sortLoop(_, _, _)
sortLoop(d, k, acc) ==
    IF k = 0 THEN [ret |-> acc, err |-> NoErr]
    ELSE LET r == pop(Old, "lt", d)
         IN  IF r.err # NoErr
             THEN [ret |-> <<>>, err |-> r.err]
             ELSE sortLoop(r.data, k - 1, acc \o r.ret)

heapsort(i, input) ==
    IF i = Old
    THEN sortLoop(heapify(input, "lt"), Len(input), <<>>)
    ELSE LET r == popArray("lt", heapify(input, "lt"), Null)
         IN  [ret |-> r.ret, err |-> r.err]

\* ------------------------------------------------------------------------
\* State
\* ------------------------------------------------------------------------
VARIABLES
    impl,      \* the revision this heap instance runs
    cmp,       \* this.compareFunc
    data,      \* this.data / this._data
    op,        \* the last call made
    arg,       \* its arguments: elements as they are, a number n as <<n>>
    pre,       \* data before the last call
    ret,       \* the values the last call returned
    err,       \* what the last call threw
    pushes,    \* SpecCount: push calls so far
    pops,      \* SpecCount: pop calls so far, each on a non-empty heap
    alias,     \* SpecAlias: which objects of the storage the caller holds
    run        \* SpecStep: the call in progress and its local variables

vars == <<impl, cmp, data, op, arg, pre, ret, err, pushes, pops, alias, run>>

\* alias.elts[j] is the storage index of the object ret[j] is (Null: none);
\* alias.arr says that the array returned is the storage array itself
NoAlias == [elts |-> <<>>, arr |-> FALSE]

\* the local variables of popArray / peekArray before anything is set
NoLocals == [count |-> 0, queue |-> <<>>, ret |-> <<>>, idx |-> <<>>, err |-> NoErr]

\* run.pc      the loop the call is in ("idle": no call in progress)
\* run.index   the local variable index of upHeap / downHeap
\* run.val     the local variable ret of pop
\* run.n       the local variable n of popArray / peekArray
\* run.st      their other local variables (see peekStep)
\* run.reads   the storage indices the last step read or wrote
\* run.len     the length of the storage when it did
Idle ==
    [pc |-> "idle", index |-> 0, val |-> Undef, n |-> 0, st |-> NoLocals,
     reads |-> {}, len |-> 0]

Init ==
    /\ impl \in Impls
    /\ cmp \in Comparators
    /\ data = <<>>
    /\ op = "new"
    /\ arg = <<>>
    /\ pre = <<>>
    /\ ret = <<>>
    /\ err = NoErr
    /\ pushes = 0
    /\ pops = 0
    /\ alias = NoAlias
    /\ run = Idle

\* One call: the heap state after it and the record of the call
Call(name, a, result) ==
    \E r \in {result} :
    /\ data' = r.data
    /\ op' = name
    /\ arg' = a
    /\ pre' = data
    /\ ret' = r.ret
    /\ err' = r.err
    /\ UNCHANGED <<impl, cmp, run>>

Cap(c) == IF c = "key" THEN MaxObjLen ELSE MaxLen

DoPush(elt) ==
    /\ size(data) < Cap(cmp)
    /\ Call("push", <<elt>>, [data |-> push(cmp, data, elt), ret |-> <<>>, err |-> NoErr])

DoPop == Call("pop", <<>>, pop(impl, cmp, data))

Push(elt) == DoPush(elt) /\ UNCHANGED <<pushes, pops, alias>>

Pop == DoPop /\ UNCHANGED <<pushes, pops, alias>>

PopArray(n) ==
    /\ impl = New
    /\ Call("popArray", <<<<n>>>>, popArray(cmp, data, n))
    /\ UNCHANGED <<pushes, pops, alias>>

Peek ==
    /\ impl = New
    /\ Call("peek", <<>>, peek(data))
    /\ UNCHANGED <<pushes, pops, alias>>

PeekArray(n) ==
    /\ impl = New
    /\ Call("peekArray", <<<<n>>>>, peekArray(cmp, data, n))
    /\ UNCHANGED <<pushes, pops, alias>>

\* the arguments tried for popArray / peekArray: omitted, 0..size+1, size+4
Counts == {Null} \cup (0..(size(data) + 1)) \cup {size(data) + 4}

RECURSIVE SeqsUpTo(_, _)
SeqsUpTo(S, n) ==
    IF n = 0 THEN {<<>>}
    ELSE LET T == SeqsUpTo(S, n - 1)
         IN  T \cup {Append(t, x) : t \in {u \in T : Len(u) = n - 1}, x \in S}

Next ==
    \/ \E elt \in Elements(cmp) : Push(elt)
    \/ Pop
    \/ \E n \in Counts : PopArray(n)
    \/ Peek
    \/ \E n \in Counts : PeekArray(n)

Spec == Init /\ [][Next]_vars

\* ------------------------------------------------------------------------
\* push and pop with the calls counted; pop is called on non-empty heaps
\* ------------------------------------------------------------------------
CountPush(elt) ==
    /\ pushes < MaxPushes
    /\ DoPush(elt)
    /\ pushes' = pushes + 1
    /\ UNCHANGED <<pops, alias>>

CountPop ==
    /\ size(data) > 0
    /\ DoPop
    /\ pops' = pops + 1
    /\ UNCHANGED <<pushes, alias>>

NextCount ==
    \/ \E elt \in Elements(cmp) : CountPush(elt)
    \/ CountPop

SpecCount == Init /\ [][NextCount]_vars

\* ------------------------------------------------------------------------
\* heapsort as a function of its input: the input is drawn at the start
\* and one call is made on it
\* ------------------------------------------------------------------------
InitSort ==
    /\ impl \in Impls
    /\ cmp = "lt"
    /\ data = <<>>
    /\ op = "new"
    /\ arg \in SeqsUpTo(Numbers, MaxSort)
    /\ pre = <<>>
    /\ ret = <<>>
    /\ err = NoErr
    /\ pushes = 0
    /\ pops = 0
    /\ alias = NoAlias
    /\ run = Idle

Heapsort ==
    LET r == heapsort(impl, arg)
    IN  /\ op = "new"
        /\ op' = "heapsort"
        /\ ret' = r.ret
        /\ err' = r.err
        /\ UNCHANGED <<impl, cmp, data, arg, pre, pushes, pops, alias, run>>

NextSort == Heapsort

SpecSort == InitSort /\ [][NextSort]_vars

\* ------------------------------------------------------------------------
\* pushArray(arr) on a new README.md heap, then popArray(): the array is
\* drawn at the start and stays in arg
\* ------------------------------------------------------------------------
InitOrder ==
    /\ impl = New
    /\ cmp \in Comparators
    /\ data = <<>>
    /\ op = "new"
    /\ arg \in SeqsUpTo(Elements(cmp), MaxOrder)
    /\ pre = <<>>
    /\ ret = <<>>
    /\ err = NoErr
    /\ pushes = 0
    /\ pops = 0
    /\ alias = NoAlias
    /\ run = Idle

PushArray ==
    /\ op = "new"
    /\ data' = pushArray(cmp, data, arg)
    /\ op' = "pushArray"
    /\ pre' = data
    /\ ret' = <<>>
    /\ err' = NoErr
    /\ UNCHANGED <<impl, cmp, arg, pushes, pops, alias, run>>

PopAll ==
    \E r \in {popArray(cmp, data, Null)} :
    /\ op = "pushArray"
    /\ data' = r.data
    /\ op' = "popAll"
    /\ pre' = data
    /\ ret' = r.ret
    /\ err' = r.err
    /\ UNCHANGED <<impl, cmp, arg, pushes, pops, alias, run>>

NextOrder ==
    \/ PushArray
    \/ PopAll

SpecOrder == InitOrder /\ [][NextOrder]_vars

\* ------------------------------------------------------------------------
\* The caller keeps what peek() and peekArray(n) of the README.md heap
\* returned and modifies it in place: it assigns the key of a returned
\* object (ret[j].key = k) or an element of the returned array
\* (ret[j] = v).  An assignment through a reference reaches the storage
\* when the object, or the array, is one the storage holds.
\* ------------------------------------------------------------------------
InitAlias == Init /\ impl = New

AliasPush(elt) ==
    /\ size(data) < MaxAliasLen
    /\ DoPush(elt)
    /\ alias' = NoAlias
    /\ UNCHANGED <<pushes, pops>>

AliasPeek ==
    /\ Call("peek", <<>>, peek(data))
    /\ alias' = [elts |-> [j \in 1..Len(peek(data).ret) |-> peekRef(data)],
                 arr  |-> FALSE]
    /\ UNCHANGED <<pushes, pops>>

AliasPeekArray(n) ==
    \E r \in {peekArray(cmp, data, n)} :
    /\ Call("peekArray", <<<<n>>>>, r)
    /\ alias' = [elts |-> [j \in 1..Len(r.idx) |-> _cloneRef(data, r.idx[j])],
                 arr  |-> FALSE]
    /\ UNCHANGED <<pushes, pops>>

\* ret[j].key = k
SetKey(j, k) ==
    /\ op \in {"peek", "peekArray"}
    /\ j \in 1..Len(ret)
    /\ ret[j] \in Objects
    /\ LET o == Obj(k, ret[j][2])
           r == [ret EXCEPT ![j] = o]
       IN  /\ ret' = r
           /\ data' = IF alias.arr THEN r
                      ELSE IF alias.elts[j] # Null THEN Put(data, alias.elts[j], o)
                      ELSE data
    /\ op' = "setKey"
    /\ arg' = <<<<j, k>>>>
    /\ pre' = data
    /\ err' = NoErr
    /\ UNCHANGED <<impl, cmp, pushes, pops, alias, run>>

\* ret[j] = v
SetElt(j, v) ==
    /\ op \in {"peek", "peekArray"}
    /\ j \in 1..Len(ret)
    /\ ret' = [ret EXCEPT ![j] = v]
    /\ data' = IF alias.arr THEN ret' ELSE data
    /\ op' = "setElt"
    /\ arg' = <<<<j>>, v>>
    /\ pre' = data
    /\ err' = NoErr
    /\ alias' = [alias EXCEPT !.elts[j] = Null]
    /\ UNCHANGED <<impl, cmp, pushes, pops, run>>

NextAlias ==
    \/ \E elt \in Elements(cmp) : AliasPush(elt)
    \/ AliasPeek
    \/ \E n \in Counts : AliasPeekArray(n)
    \/ \E j \in 1..Len(ret), k \in 1..MaxKey : SetKey(j, k)
    \/ \E j \in 1..Len(ret), v \in Elements(cmp) : SetElt(j, v)

SpecAlias == InitAlias /\ [][NextAlias]_vars

\* ------------------------------------------------------------------------
\* The calls taken one loop iteration at a time.  A call starts when none
\* is in progress (the code is single-threaded and every method runs to
\* its return), runs its loop one iteration per step, and returns.
\* ------------------------------------------------------------------------
Frame == UNCHANGED <<impl, cmp, pushes, pops, alias>>

\* push(elt): this.data.push(elt), then upHeap starts at the last index
StartPush(elt) ==
    /\ run.pc = "idle"
    /\ size(data) < Cap(cmp)
    /\ data' = Put(data, Len(data), elt)
    /\ run' = [Idle EXCEPT !.pc = "up", !.index = size(data') - 1,
                           !.reads = {size(data)}, !.len = size(data')]
    /\ op' = "push"
    /\ arg' = <<elt>>
    /\ pre' = data
    /\ ret' = <<>>
    /\ err' = NoErr
    /\ Frame

\* while (index > 0) { ... }
UpStep ==
    /\ run.pc = "up"
    /\ run.index > 0
    /\ \E s \in {upStep(cmp, data, run.index)} :
           /\ data' = s.data
           /\ run' = [run EXCEPT !.pc = IF s.more THEN "up" ELSE "idle",
                                 !.index = s.index,
                                 !.reads = upReads(data, run.index),
                                 !.len = size(data)]
    /\ UNCHANGED <<op, arg, pre, ret, err>>
    /\ Frame

\* the loop condition is false: upHeap and push return
UpEnd ==
    /\ run.pc = "up"
    /\ run.index <= 0
    /\ run' = [run EXCEPT !.pc = "idle", !.reads = {}]
    /\ UNCHANGED <<data, op, arg, pre, ret, err>>
    /\ Frame

\* pop(): ret = data[0], then downHeap moves the top to the end and
\* removes it
StartPop ==
    /\ run.pc = "idle"
    /\ data' = downStart(data)
    /\ run' = [Idle EXCEPT !.pc = "down", !.index = 0, !.val = At(data, 0),
                           !.reads = {0, size(data) - 1}, !.len = size(data)]
    /\ op' = "pop"
    /\ arg' = <<>>
    /\ pre' = data
    /\ ret' = <<>>
    /\ err' = NoErr
    /\ Frame

\* while (index < this.size()) { ... }; after break pop returns ret, and
\* a comparator that throws ends the call
DownStep ==
    /\ run.pc = "down"
    /\ run.index < size(data)
    /\ \E s \in {IF impl = Old THEN downStep(cmp, data, run.index)
                   ELSE _downStep(cmp, data, run.index)} :
           /\ data' = s.data
           /\ run' = [run EXCEPT !.pc = IF s.more THEN "down" ELSE "idle",
                                 !.index = s.index,
                                 !.reads = IF impl = Old
                                           THEN downReads(cmp, data, run.index)
                                           ELSE _downReads(cmp, data, run.index),
                                 !.len = size(data)]
           /\ ret' = IF ~s.more /\ s.err = NoErr THEN <<run.val>> ELSE <<>>
           /\ err' = s.err
    /\ UNCHANGED <<op, arg, pre>>
    /\ Frame

\* the loop condition is false: downHeap returns and pop returns ret
DownEnd ==
    /\ run.pc = "down"
    /\ run.index >= size(data)
    /\ run' = [run EXCEPT !.pc = "idle", !.reads = {}]
    /\ ret' = <<run.val>>
    /\ UNCHANGED <<data, op, arg, pre, err>>
    /\ Frame

\* popArray(n): the precondition, then the for loop is entered
StartPopArray(n) ==
    /\ run.pc = "idle"
    /\ impl = New
    /\ IF n # Null /\ n > size(data)
       THEN /\ run' = Idle
            /\ err' = HeapError
       ELSE /\ run' = [Idle EXCEPT
                          !.pc = "pops",
                          !.n = IF n = Null THEN size(data) ELSE n,
                          !.st.ret = [j \in 1..(IF n = Null THEN size(data) ELSE n)
                                          |-> Undef]]
            /\ err' = NoErr
    /\ op' = "popArray"
    /\ arg' = <<<<n>>>>
    /\ pre' = data
    /\ ret' = <<>>
    /\ UNCHANGED data
    /\ Frame

\* for (var i = 0; i < n; ++i) ret[i] = this.pop()
PopsStep ==
    /\ run.pc = "pops"
    /\ run.st.count < run.n
    /\ \E r \in {pop(New, cmp, data)} :
           /\ data' = r.data
           /\ err' = r.err
           /\ run' = IF r.err # NoErr THEN Idle
                     ELSE [run EXCEPT !.st.ret = Put(@, run.st.count, r.ret[1]),
                                      !.st.count = @ + 1]
    /\ UNCHANGED <<op, arg, pre, ret>>
    /\ Frame

PopsEnd ==
    /\ run.pc = "pops"
    /\ run.st.count >= run.n
    /\ run' = [run EXCEPT !.pc = "idle"]
    /\ ret' = run.st.ret
    /\ UNCHANGED <<data, op, arg, pre, err>>
    /\ Frame

\* peekArray(n): the precondition, then queue, ret and count are set, the
\* first element is added to the queue and the while loop is entered
StartPeekArray(n) ==
    /\ run.pc = "idle"
    /\ impl = New
    /\ LET m == IF n = Null THEN size(data) ELSE n
       IN  IF m > size(data)
           THEN /\ run' = Idle
                /\ err' = HeapError
           ELSE /\ run' = [Idle EXCEPT !.pc = "peek", !.n = m,
                                       !.st = peekStart(cmp, data, m),
                                       !.reads = {0}, !.len = size(data)]
                /\ err' = NoErr
    /\ op' = "peekArray"
    /\ arg' = <<<<n>>>>
    /\ pre' = data
    /\ ret' = <<>>
    /\ UNCHANGED data
    /\ Frame

\* while (count < n && queue.empty() == false) { ... }
PeekStep ==
    /\ run.pc = "peek"
    /\ peekMore(run.n, run.st)
    /\ run' = [run EXCEPT !.st = peekStep(cmp, data, run.st),
                          !.reads = peekReads(cmp, data, run.st),
                          !.len = size(data)]
    /\ UNCHANGED <<data, op, arg, pre, ret, err>>
    /\ Frame

\* the loop condition is false: peekArray returns ret
PeekEnd ==
    /\ run.pc = "peek"
    /\ ~peekMore(run.n, run.st)
    /\ run' = [run EXCEPT !.pc = "idle", !.reads = {}]
    /\ ret' = peekEnd(data, run.st).ret
    /\ err' = peekEnd(data, run.st).err
    /\ UNCHANGED <<data, op, arg, pre>>
    /\ Frame

\* the steps of a call in progress
Running ==
    \/ UpStep
    \/ UpEnd
    \/ DownStep
    \/ DownEnd
    \/ PopsStep
    \/ PopsEnd
    \/ PeekStep
    \/ PeekEnd

NextStep ==
    \/ \E elt \in Elements(cmp) : StartPush(elt)
    \/ StartPop
    \/ \E n \in Counts : StartPopArray(n)
    \/ \E n \in Counts : StartPeekArray(n)
    \/ Running

SpecStep == Init /\ [][NextStep]_vars

\* ------------------------------------------------------------------------
\* The index functions applied to an index drawn at the start: arg holds
\* the index, ret what was computed from it
\* ------------------------------------------------------------------------
InitIndex ==
    /\ impl \in Impls
    /\ cmp = "lt"
    /\ data = <<>>
    /\ op = "new"
    /\ arg \in {<<<<n>>>> : n \in 0..MaxIndex}
    /\ pre = <<>>
    /\ ret = <<>>
    /\ err = NoErr
    /\ pushes = 0
    /\ pops = 0
    /\ alias = NoAlias
    /\ run = Idle

FindParent ==
    /\ op = "new"
    /\ op' = "findParent"
    /\ ret' = <<<<findParent(arg[1][1])>>>>
    /\ UNCHANGED <<impl, cmp, data, arg, pre, err, pushes, pops, alias, run>>

FindChildren ==
    /\ op = "new"
    /\ op' = "findChildren"
    /\ ret' = <<<<childLeft(arg[1][1])>>, <<childRight(arg[1][1])>>>>
    /\ UNCHANGED <<impl, cmp, data, arg, pre, err, pushes, pops, alias, run>>

NextIndex ==
    \/ FindParent
    \/ FindChildren

SpecIndex == InitIndex /\ [][NextIndex]_vars

\* ------------------------------------------------------------------------
\* Vocabulary of the properties
\* ------------------------------------------------------------------------
less(x, y) == compareFunc(cmp, x, y)

Range(s) == {s[j] : j \in 1..Len(s)}

Count(s, x) == Cardinality({j \in 1..Len(s) : s[j] = x})

\* a and b hold the same elements, each as often
SameElements(a, b) == \A x \in Range(a) \cup Range(b) : Count(a, x) = Count(b, x)

\* no element of s is less than the one before it
Sorted(s) == \A j \in 1..(Len(s) - 1) : ~less(s[j + 1], s[j])

\* the heap property, with parent(i) = floor((i + 1) / 2) - 1 over JS indices
HeapProperty(d) ==
    \A i \in 1..(Len(d) - 1) : ~less(At(d, i), At(d, ((i + 1) \div 2) - 1))

\* x and y are values neither of which is less than the other
Equivalent(x, y) == x # Undef /\ y # Undef /\ ~less(x, y) /\ ~less(y, x)

\* the count a popArray / peekArray call asked for
Asked == IF arg[1][1] = Null THEN Len(pre) ELSE arg[1][1]

\* the values successive pop() calls return until the heap is empty (cut
\* short at a pop that throws)
RECURSIVE Drain(_, _, _)
Drain(i, c, d) ==
    IF d = <<>> THEN <<>>
    ELSE LET r == pop(i, c, d)
         IN  IF r.err # NoErr THEN <<>> ELSE r.ret \o Drain(i, c, r.data)

Remove(s, j) == SubSeq(s, 1, j - 1) \o SubSeq(s, j + 1, Len(s))

\* the orders in which the elements of s can be arranged
RECURSIVE Perms(_)
Perms(s) ==
    IF s = <<>> THEN {<<>>}
    ELSE UNION {{<<s[j]>> \o t : t \in Perms(Remove(s, j))} : j \in 1..Len(s)}

\* what popArray() returns on a new heap the array T was pushed to
DrainOf(T) == popArray(cmp, pushArray(cmp, <<>>, T), Null).ret

\* no number of s is above the one before it
NonIncreasing(s) == \A j \in 1..(Len(s) - 1) : s[j][1] >= s[j + 1][1]

\* ------------------------------------------------------------------------
\* C1: after any sequence of push and pop calls on a heap created empty,
\* no element of the storage is less than its parent: for every index
\* i >= 1, less(storage[i], storage[floor((i+1)/2) - 1]) is false.
\* ------------------------------------------------------------------------
C1_HeapProperty == HeapProperty(data)

\* The property holds of the README.md revision, and of src/BinaryHeap.js
\* as long as the comparator returns false on undefined.
C1_HeapPropertyChecked == (impl = New \/ cmp # "key") => HeapProperty(data)

\* ------------------------------------------------------------------------
\* C2: pop() on a non-empty heap returns the element r that was at index 0,
\* nothing stored before the call is less than r, and the storage after
\* the call is the storage before it minus one occurrence of r.
\* ------------------------------------------------------------------------
C2_PopReturnsRoot ==
    (op = "pop" /\ pre # <<>>) =>
        /\ err = NoErr
        /\ ret = <<pre[1]>>
        /\ \A j \in 1..Len(pre) : ~less(pre[j], pre[1])
        /\ SameElements(data \o ret, pre)

C2_PopReturnsRootChecked == (impl = New \/ cmp # "key") => C2_PopReturnsRoot

\* ------------------------------------------------------------------------
\* C3: from an empty heap, after k pushes and j pops, every pop on a
\* non-empty heap, size() is k - j; a push adds exactly one element and a
\* pop removes exactly one.
\* ------------------------------------------------------------------------
C3_CountPreservation ==
    /\ size(data) = pushes - pops
    /\ op = "push" => size(data) = size(pre) + 1
    /\ op = "pop" => size(data) = size(pre) - 1

C3_Witness == pushes = 5 /\ pops = 3 /\ op = "pop" /\ size(data) = 2

C5_PopArraySorted ==
    (op = "popArray" /\ Asked <= size(pre)) =>
        /\ err = NoErr
        /\ Len(ret) = Asked
        /\ Sorted(ret)
        /\ Asked > 0 => \A j \in 1..Len(data) : ~less(data[j], ret[Asked])
        /\ size(data) = size(pre) - Asked
        /\ arg[1][1] = Null => data = <<>>

C5_Witness ==
    /\ op = "popArray"
    /\ arg[1][1] = 3
    /\ size(pre) = 5
    /\ Cardinality(Range(ret)) = 3
    /\ size(data) = 2

\* ------------------------------------------------------------------------
\* C6: popArray(n) with n greater than the size raises the range error
\* before anything is removed: storage and size are as before the call.
\* ------------------------------------------------------------------------
C6_PopArrayRange ==
    (op = "popArray" /\ arg[1][1] # Null /\ arg[1][1] > size(pre)) =>
        (err = HeapError /\ ret = <<>> /\ data = pre)

C6_Witness ==
    /\ op = "popArray"
    /\ size(pre) >= 2
    /\ arg[1][1] = size(pre) + 4
    /\ err = HeapError

\* ------------------------------------------------------------------------
\* C7: peek() and peekArray(n) leave the storage, index by index, and so
\* the size, as they found them; pop is a function of the storage and the
\* comparator, so the pops that follow are the same as without the call.
\* ------------------------------------------------------------------------
C7_PeekFrame ==
    op \in {"peek", "peekArray"} =>
        /\ data = pre
        /\ popArray(cmp, data, Null).ret = popArray(cmp, pre, Null).ret

C7_Witness ==
    /\ op = "peekArray"
    /\ arg[1][1] = 2
    /\ size(pre) >= 3
    /\ Len(ret) = 2
    /\ data = pre

\* ------------------------------------------------------------------------
\* C8, as stated: the values of peekArray(n) equal, position by position,
\* those of popArray(n) on a copy of the heap, for every comparator.
\* ------------------------------------------------------------------------
C8_PeekEqualsPop ==
    (op = "peekArray" /\ err = NoErr) => ret = popArray(cmp, pre, arg[1][1]).ret

\* C8, amended: the two sequences have the same length and at each position
\* hold equivalent values (neither less than the other); they are equal
\* when the comparator orders numbers, where equivalent values are equal.
C8_PeekEquivalentToPop ==
    (op = "peekArray" /\ err = NoErr) =>
        LET q == popArray(cmp, pre, arg[1][1]).ret
        IN  /\ Len(ret) = Len(q)
            /\ \A j \in 1..Len(ret) : Equivalent(ret[j], q[j])
            /\ cmp # "key" => ret = q

C8_Witness ==
    /\ op = "peekArray"
    /\ cmp = "key"
    /\ Len(ret) = 3
    /\ ret # popArray(cmp, pre, arg[1][1]).ret

\* ------------------------------------------------------------------------
\* C9: heapsort(S) returns the elements of S, each as often as in S, none
\* less than the one before it under the default comparator.
\* ------------------------------------------------------------------------
C9_HeapsortSorts ==
    op = "heapsort" =>
        /\ err = NoErr
        /\ Len(ret) = Len(arg)
        /\ SameElements(ret, arg)
        /\ Sorted(ret)

C9_Witness ==
    /\ op = "heapsort"
    /\ Len(arg) = 5
    /\ ~Sorted(arg)
    /\ Cardinality(Range(arg)) = 3

\* ------------------------------------------------------------------------
\* C10: peek() on a heap of size 0 fails and leaves the heap unchanged.
\* ------------------------------------------------------------------------
C10_PeekEmptyFails ==
    (op = "peek" /\ pre = <<>>) => (err # NoErr /\ ret = <<>> /\ data = pre)

C10_Witness == op = "peek" /\ pre = <<>> /\ err = SyntaxError

\* ------------------------------------------------------------------------
\* C11: peekArray(n) with n greater than the size fails with the range
\* error and returns nothing; peekArray() with n omitted returns what
\* peekArray(size()) returns: all the stored elements, none less than the
\* one before it.
\* ------------------------------------------------------------------------
C11_PeekArrayRangeAndDefault ==
    /\ (op = "peekArray" /\ arg[1][1] # Null /\ arg[1][1] > size(pre)) =>
           (err = HeapError /\ ret = <<>>)
    /\ (op = "peekArray" /\ arg[1][1] = Null) =>
           /\ err = NoErr
           /\ ret = peekArray(cmp, pre, size(pre)).ret
           /\ Len(ret) = size(pre)
           /\ SameElements(ret, pre)
           /\ Sorted(ret)

C11_Witness ==
    /\ op = "peekArray"
    /\ arg[1][1] = Null
    /\ size(pre) = 3
    /\ ret # pre
    /\ Cardinality(Range(ret)) = 3

C11_WitnessRange ==
    op = "peekArray" /\ arg[1][1] = size(pre) + 1 /\ size(pre) >= 2 /\ err = HeapError

\* ------------------------------------------------------------------------
\* C12: on a non-empty heap peek() returns a value equal to the one the
\* pop() that follows it returns.
\* ------------------------------------------------------------------------
C12_PeekEqualsNextPop ==
    (op = "peek" /\ pre # <<>>) =>
        (err = NoErr /\ ret = pop(impl, cmp, data).ret)

\* The property holds as long as the root is not the number Infinity.
C12_PeekEqualsNextPopChecked ==
    (op = "peek" /\ pre # <<>> /\ pre[1] # Infinity) =>
        (err = NoErr /\ ret = pop(impl, cmp, data).ret)

\* ------------------------------------------------------------------------
\* C13: with the comparator (a, b) => a > b the heap is a max-heap: after
\* any sequence of pushes (and pops) the pops that follow return all the
\* stored numbers in non-increasing order, the first being the maximum;
\* pushing 5, 3, 8, 1, 9, 2 and popping twice returns 9 then 8.
\* ------------------------------------------------------------------------
C13_Scenario == <<Num(5), Num(3), Num(8), Num(1), Num(9), Num(2)>>

C13_MaxHeap ==
    cmp = "gt" =>
        LET s == Drain(impl, cmp, data)
            h == pushArray(cmp, <<>>, C13_Scenario)
            p == pop(impl, cmp, h)
        IN  /\ Len(s) = size(data)
            /\ SameElements(s, data)
            /\ NonIncreasing(s)
            /\ \A j \in 1..Len(data) : s[1][1] >= data[j][1]
            /\ op = "pop" /\ pre # <<>> =>
                   /\ err = NoErr
                   /\ \A j \in 1..Len(pre) : ret[1][1] >= pre[j][1]
            /\ p.ret = <<Num(9)>>
            /\ pop(impl, cmp, p.data).ret = <<Num(8)>>

C13_Witness ==
    /\ cmp = "gt"
    /\ op = "pop"
    /\ size(pre) = 5
    /\ Cardinality(Range(pre)) >= 3
    /\ pre[5] = ret[1]
    /\ Len(Drain(impl, cmp, data)) = 4

\* ------------------------------------------------------------------------
\* C14, as stated: for a fixed multiset of elements and a fixed comparator
\* popArray() returns the same sequence whatever the order in which the
\* elements were pushed.
\* ------------------------------------------------------------------------
C14_DrainOrderInvariant ==
    op = "popAll" => \A T \in Perms(arg) : DrainOf(T) = ret

\* C14, amended: whatever the push order, the sequences drained have the
\* same length and hold equivalent elements at each position (neither less
\* than the other); they are the same sequence when no two different
\* elements pushed are equivalent, as with numbers.
C14_DrainOrderEquivalent ==
    op = "popAll" =>
        \A T \in Perms(arg) :
            LET q == DrainOf(T)
            IN  /\ err = NoErr
                /\ Len(q) = Len(arg)
                /\ Len(ret) = Len(arg)
                /\ \A j \in 1..Len(ret) : Equivalent(q[j], ret[j])
                /\ (\A j, k \in 1..Len(arg) :
                        Equivalent(arg[j], arg[k]) => arg[j] = arg[k]) => q = ret

C14_Witness ==
    /\ op = "popAll"
    /\ Len(arg) = 3
    /\ Cardinality(Range(arg)) = 3
    /\ \E T \in Perms(arg) : pushArray(cmp, <<>>, T) # pre /\ DrainOf(T) = ret

C14_WitnessEquivalent ==
    /\ op = "popAll"
    /\ cmp = "key"
    /\ Len(arg) = 3
    /\ \E T \in Perms(arg) : DrainOf(T) # ret

StepwiseAgrees ==
    run.pc = "idle" =>
        /\ op = "push" => data = push(cmp, pre, arg[1])
        /\ op = "pop" =>
               /\ data = pop(impl, cmp, pre).data
               /\ ret = pop(impl, cmp, pre).ret
               /\ err = pop(impl, cmp, pre).err
        /\ op = "popArray" =>
               /\ data = popArray(cmp, pre, arg[1][1]).data
               /\ ret = popArray(cmp, pre, arg[1][1]).ret
               /\ err = popArray(cmp, pre, arg[1][1]).err
        /\ op = "peekArray" =>
               /\ data = pre
               /\ ret = peekArray(cmp, pre, arg[1][1]).ret
               /\ err = peekArray(cmp, pre, arg[1][1]).err

\* ------------------------------------------------------------------------
\* C16: every call of push, pop, popArray(n) and peekArray(n) terminates:
\* while sift-up goes on its index strictly decreases and stays at or above
\* 0, while sift-down goes on its index strictly increases and stays below
\* the size, each iteration of the popArray and peekArray loops adds one to
\* a count that never exceeds n; so every step of a call in progress
\* lowers a natural number, the steps left at most, and the call ends.
\* ------------------------------------------------------------------------
StepsLeft(r, d) ==
    CASE r.pc = "idle" -> 0
      [] r.pc = "up"   -> r.index + 1
      [] r.pc = "down" -> size(d) - r.index + 1
      [] OTHER         -> r.n - r.st.count + 1

C16_Terminates ==
    /\ [][(run.pc = "up" /\ run'.pc = "up") =>
              (run'.index < run.index /\ run'.index >= 0)]_run
    /\ [][(run.pc = "down" /\ run'.pc = "down") =>
              (run'.index > run.index /\ run'.index < size(data'))]_run
    /\ [][(run.pc \in {"pops", "peek"} /\ run'.pc = run.pc) =>
              (run'.st.count = run.st.count + 1 /\ run'.n = run.n)]_run
    /\ [](run.pc \in {"pops", "peek"} => run.st.count <= run.n)
    /\ [](StepsLeft(run, data) >= 0)
    /\ [][run.pc # "idle" => StepsLeft(run', data') < StepsLeft(run, data)]_run

C16_Witness ==
    /\ run.pc = "down"
    /\ run.index = 3
    /\ size(data) = 4

C16_WitnessUp ==
    /\ run.pc = "up"
    /\ run.index = 0
    /\ size(data) = 5
    /\ data[1] = arg[1]

C16_WitnessPeek ==
    /\ run.pc = "peek"
    /\ run.n = 3
    /\ run.st.count = 3
    /\ size(data) = 5

\* ------------------------------------------------------------------------
\* C17: in every iteration of the peekArray loop the pair popped from the
\* auxiliary heap carries a value v such that no element of the storage not
\* emitted before is less than v; and while elements remain to emit, the
\* auxiliary heap holds the index of one that no other of them is less
\* than, each pair holding an index not yet emitted and the element there.
\* ------------------------------------------------------------------------
Emitted(k) == {run.st.idx[j] : j \in 1..k}

C17_FrontierHoldsMinimum ==
    run.pc = "peek" =>
        LET k == Len(run.st.idx)
            queue == run.st.queue
            rest == (0..(size(data) - 1)) \ Emitted(k)
        IN  /\ k = run.st.count
            /\ k > 0 =>
                   /\ run.st.idx[k] \in (0..(size(data) - 1)) \ Emitted(k - 1)
                   /\ run.st.ret[k] = At(data, run.st.idx[k])
                   /\ \A j \in (0..(size(data) - 1)) \ Emitted(k - 1) :
                          ~less(At(data, j), At(data, run.st.idx[k]))
            /\ \A q \in 1..Len(queue) :
                   /\ size(data) > 0 => queue[q][2] \in rest
                   /\ queue[q][1] = At(data, queue[q][2])
            /\ rest # {} =>
                   \E q \in 1..Len(queue) :
                       /\ queue[q][2] \in rest
                       /\ \A j \in rest : ~less(At(data, j), queue[q][1])

C17_Witness ==
    /\ run.pc = "peek"
    /\ size(data) = 5
    /\ run.st.idx = <<0, 2, 1>>
    /\ Len(run.st.queue) = 2

\* ------------------------------------------------------------------------
\* C18: each step of pop's sift-down at index i of the shrunken storage:
\* with no child in range it stops; with only the left child in range the
\* left child is the candidate; with both in range the candidate is the
\* right child exactly when less(right, left), the left child otherwise;
\* the candidate and the current element are swapped, and the sift-down
\* moves to the candidate, only when less(candidate, current), and it
\* stops otherwise.
\* ------------------------------------------------------------------------
Candidate(d, i) ==
    LET right == (i + 1) * 2
        left  == right - 1
    IN  IF left >= size(d) THEN Null
        ELSE IF right < size(d) /\ less(At(d, right), At(d, left)) THEN right
        ELSE left

SiftDownStep ==
    LET cand == Candidate(data, run.index)
    IN  IF cand # Null /\ less(At(data, cand), At(data, run.index))
        THEN /\ data' = swapAt(data, cand, run.index)
             /\ run'.index = cand
             /\ run'.pc = "down"
        ELSE /\ data' = data
             /\ run'.pc = "idle"

C18_SiftDownStep == [][run.pc = "down" => SiftDownStep]_run

\* The property holds of the README.md revision, and of src/BinaryHeap.js
\* as long as the comparator returns false on undefined.
C18_SiftDownStepChecked ==
    [][(run.pc = "down" /\ (impl = New \/ cmp # "key")) => SiftDownStep]_run

\* ------------------------------------------------------------------------
\* C19: during push, and during pop of a non-empty heap, every storage
\* slot read, swapped or passed to the comparator is at an index i with
\* 0 <= i < the storage length at that moment; sift-down passes no
\* out-of-range child slot to the comparator.
\* ------------------------------------------------------------------------
InRange == \A i \in run.reads : 0 <= i /\ i < run.len

C19_ReadsInRange ==
    ((op = "push") \/ (op = "pop" /\ pre # <<>>)) => InRange

\* The property holds of the README.md revision.
C19_ReadsInRangeChecked ==
    (impl = New /\ ((op = "push") \/ (op = "pop" /\ pre # <<>>))) => InRange

\* Sift-up stays in range in both revisions.
C19_PushInRange == op = "push" => InRange

\* ------------------------------------------------------------------------
\* C20: peekArray(0), or peekArray() with n omitted, on an empty heap
\* returns an empty sequence, and does so without adding a first pair to
\* the auxiliary heap and without reading storage[0].
\* ------------------------------------------------------------------------
EmptyPeekArray ==
    op = "peekArray" /\ pre = <<>> /\ arg[1][1] \in {0, Null}

C20_EmptyPeekArrayUnseeded ==
    EmptyPeekArray =>
        /\ run.st.queue = <<>>
        /\ 0 \notin run.reads
        /\ run.pc = "idle" => (err = NoErr /\ ret = <<>>)

\* What holds of the call: it returns an empty sequence, the loop body
\* never runs and the heap stays empty.
C20_EmptyPeekArrayReturnsEmpty ==
    EmptyPeekArray =>
        /\ data = <<>>
        /\ run.st.count = 0
        /\ run.st.queue = <<pack(Undef, 0)>>
        /\ run.pc = "idle" => (err = NoErr /\ ret = <<>>)

\* ------------------------------------------------------------------------
\* C21: the index functions are inverse to each other: for every n >= 0
\* the children the code computes for n are 2n + 1 and 2n + 2 and the
\* parent of each is n; for every i >= 1 the parent p of i satisfies
\* 0 <= p < i and i is one of the two children the code computes for p
\* (_findChildren and _findMinChild on a storage that holds index i
\* included).
\* ------------------------------------------------------------------------
Filled(len) == [j \in 1..len |-> Num(1)]

C21_IndexInverse ==
    LET n == arg[1][1]
    IN  /\ op = "findChildren" =>
               /\ ret[1][1] = 2 * n + 1
               /\ ret[2][1] = 2 * n + 2
               /\ findParent(ret[1][1]) = n
               /\ findParent(ret[2][1]) = n
               /\ _findChildren(Filled(2 * n + 3), n) = <<ret[1][1], ret[2][1]>>
        /\ (op = "findParent" /\ n >= 1) =>
               LET p == ret[1][1]
               IN  /\ 0 <= p
                   /\ p < n
                   /\ n \in {childLeft(p), childRight(p)}
                   /\ \E k \in 1..2 : _findChildren(Filled(n + 1), p)[k] = n
                   /\ _findMinChild(cmp, Filled(n + 1), p) \in {childLeft(p), childRight(p)}
                   /\ findMinChild(cmp, Filled(n + 1), p) \in {childLeft(p), childRight(p)}

C21_Witness ==
    /\ op = "findParent"
    /\ arg[1][1] = 6
    /\ ret = <<<<2>>>>

C21_WitnessChildren ==
    /\ op = "findChildren"
    /\ arg[1][1] = 7
    /\ ret = <<<<15>>, <<16>>>>

\* ------------------------------------------------------------------------
\* C22: peekArray(n) on a heap of size s >= 1 with 1 <= n <= s: the loop
\* ends with count = n, the auxiliary heap not having run empty before, so
\* each of the n slots of the array returned is filled; every index of the
\* storage is pushed to the auxiliary heap at most once, so none is
\* emitted twice; and the auxiliary heap never holds more than count + 1
\* pairs.
\* ------------------------------------------------------------------------
\* the indices pushed so far: those emitted, then those waiting
Pushed == run.st.idx \o [q \in 1..Len(run.st.queue) |-> run.st.queue[q][2]]

C22_PeekArrayFillsResult ==
    (op = "peekArray" /\ err = NoErr /\ size(pre) >= 1 /\ run.n >= 1) =>
        /\ run.n <= size(pre)
        /\ Len(run.st.queue) <= run.st.count + 1
        /\ \A j, k \in 1..Len(Pushed) : Pushed[j] = Pushed[k] => j = k
        /\ \A j \in 1..Len(Pushed) : 0 <= Pushed[j] /\ Pushed[j] < size(pre)
        /\ run.st.count < run.n => run.st.queue # <<>>
        /\ (run.pc = "peek" /\ ~peekMore(run.n, run.st)) => run.st.count = run.n
        /\ run.pc = "idle" =>
               /\ run.st.count = run.n
               /\ Len(ret) = run.n
               /\ \A j \in 1..Len(ret) : ret[j] = At(pre, run.st.idx[j])

C22_Witness ==
    /\ op = "peekArray"
    /\ run.pc = "idle"
    /\ size(pre) = 5
    /\ run.n = 4
    /\ Len(ret) = 4
    /\ Len(run.st.queue) = 1

C22_WitnessQueue ==
    /\ run.pc = "peek"
    /\ size(data) = 5
    /\ run.st.count = 2
    /\ Len(run.st.queue) = 3

====
